---- MODULE Spec2Model ----
(***************************************************************************)
(* newspaper/mthreading.py: Worker, ThreadPool and NewsPool.               *)
(*                                                                         *)
(* A ThreadPool owns one queue.Queue(num_threads) and num_threads Worker   *)
(* threads.  A Worker loops: tasks.get(timeout), the call of func      *)
(* under "except Exception", tasks.task_done(); it leaves the loop when    *)
(* get raises queue.Empty.  NewsPool builds one ThreadPool per batch and   *)
(* join() waits on it.                                                     *)
(*                                                                         *)
(* Threads interleave at the queue operations, so every queue operation    *)
(* (put, get, task_done, join) and every job invocation is one step.  Wall *)
(* clock time is not modelled: a get(timeout) on an empty queue may raise  *)
(* queue.Empty at any moment.  A job invocation either returns or raises   *)
(* an Exception.                                                           *)
(***************************************************************************)
EXTENDS Integers, Sequences, FiniteSets, Bags, TLC

\* ---------------------------------------------------------------- bounds
MaxLen == 2               \* longest paper_list / article_list
MaxK == 1                 \* largest threads_per_source
MaxPools == 2             \* ThreadPool constructions in one run of NewsPool
MaxThreads == 2           \* largest num_threads of a directly built ThreadPool
MaxTasks == 3             \* add_task calls on a directly built ThreadPool
max_number_threads == 2   \* config.max_number_threads

VARIABLES
    papers,      \* NewsPool.papers: a list of items
    articles,    \* NewsPool.articles: a list of items, or None
    pool,        \* NewsPool.pool: 0 for None, else an index into pools
    pools,       \* every ThreadPool constructed so far, with its Worker threads
    pc,          \* where the calling thread is: idle, or inside a call
    last         \* the last call the calling thread completed and its outcome

vars == <<papers, articles, pool, pools, pc, last>>

\* None, as a value of NewsPool.articles (kept a sequence, unlike any item list)
None == <<-1>>

\* the item lists a caller passes: items are opaque objects, named 1..n
ItemLists == { [i \in 1..n |-> i] : n \in 0..MaxLen }

NoJob == [func |-> "none", item |-> 0, id |-> 0]

Idle == [op |-> "idle", i |-> 0, k |-> 0]

Min(a, b) == IF a <= b THEN a ELSE b

\* ------------------------------------------------------------ ThreadPool

\* Worker.__init__: a started thread, about to call tasks.get
NewWorker == [state |-> "Running", job |-> NoJob, raised |-> FALSE]

\* n threads in the same state; ThreadPool keeps no reference to the
\* Workers it starts, so the threads of a pool are a bag of thread states
Copies(worker, n) == IF n > 0 THEN [x \in {worker} |-> n] ELSE EmptyBag

\* one thread of the bag moves from one state to another
Move(workers, from, to) == (workers (-) SetToBag({from})) (+) SetToBag({to})

\* a pool whose loop starts one Worker short, as range(1, num_threads) would
ThreadPoolOneShort(num_threads) ==
    [ maxsize          |-> num_threads,
      queue            |-> << >>,
      unfinished_tasks |-> 0,
      workers          |-> Copies(NewWorker, num_threads - 1),
      put              |-> << >>,
      got              |-> << >>,
      calls            |-> << >>,
      traces           |-> << >>,
      done             |-> << >> ]

\* ThreadPool.__init__: queue.Queue(num_threads) and, for range(num_threads),
\* one Worker each.  put, got, calls, traces and done record the history of
\* the pool: the jobs in the order they were enqueued and dequeued, and per
\* job how often it was invoked, how often its traceback was printed and how
\* often task_done was called for it.
ThreadPool(num_threads) ==
    [ maxsize          |-> num_threads,
      queue            |-> << >>,
      unfinished_tasks |-> 0,
      workers          |-> Copies(NewWorker, num_threads),
      put              |-> << >>,
      got              |-> << >>,
      calls            |-> << >>,
      traces           |-> << >>,
      done             |-> << >> ]

\* a queue built without a size, which never blocks a put
FullNever(P) == FALSE

\* a queue that lets one job too many in
FullOneLate(P) == P.maxsize > 0 /\ Len(P.queue) > P.maxsize

\* queue.Queue: put blocks while maxsize > 0 and qsize() >= maxsize
Full(P) == P.maxsize > 0 /\ Len(P.queue) >= P.maxsize

\* the job tuple (func, args, kargs) add_task builds
Job(P, func, item) == [func |-> func, item |-> item, id |-> Len(P.put) + 1]

\* ThreadPool.add_task once put is not blocked: append, count the job unfinished
Put(P, job) ==
    [P EXCEPT !.queue = Append(@, job),
              !.unfinished_tasks = @ + 1,
              !.put = Append(@, job),
              !.calls = Append(@, 0),
              !.traces = Append(@, 0),
              !.done = Append(@, 0)]

\* a queue that hands out the newest job, as queue.LifoQueue does
Newest(q) == q[Len(q)]

\* the job tasks.get hands out: the oldest one
Oldest(q) == Head(q)

\* a get that reads the head of the queue without removing it
RestKeepsHead(q) == q

\* what is left in the queue after a get
Rest(q) == Tail(q)

\* Worker.run, tasks.get returned a job: the worker goes on to invoke it
Get(P, w) ==
    [P EXCEPT !.queue = Rest(@),
              !.got = Append(@, Oldest(P.queue)),
              !.workers = Move(@, w, [w EXCEPT !.state = "Executing",
                                               !.job = Oldest(P.queue)])]

\* a pool that starts a replacement for every worker that idles out
TimeoutRespawn(P, w) ==
    [P EXCEPT !.workers = Move(@, w, [w EXCEPT !.state = "Stopped"])
                              (+) SetToBag({NewWorker})]

\* Worker.run, tasks.get raised queue.Empty: break, the thread ends
Timeout(P, w) ==
    [P EXCEPT !.workers = Move(@, w, [w EXCEPT !.state = "Stopped"])]

\* a worker without the try: an exception of the job ends the thread
InvokeUncaught(P, w, raises) ==
    [P EXCEPT !.calls[w.job.id] = @ + 1,
              !.workers = Move(@, w, IF raises
                                     THEN [w EXCEPT !.state = "Stopped", !.raised = TRUE]
                                     ELSE [w EXCEPT !.state = "Executed"])]

\* Worker.run, the call of func ended: it returned, or it raised an
\* Exception that is caught and printed by traceback.print_exc()
Invoke(P, w, raises) ==
    [P EXCEPT !.calls[w.job.id] = @ + 1,
              !.traces[w.job.id] = IF raises THEN @ + 1 ELSE @,
              !.workers = Move(@, w, [w EXCEPT !.state = "Executed",
                                               !.raised = raises])]

\* a worker that signals completion in the except branch and again after it
TaskDoneTwice(P, w) ==
    [P EXCEPT !.unfinished_tasks = IF w.raised THEN @ - 2 ELSE @ - 1,
              !.done[w.job.id] = IF w.raised THEN @ + 2 ELSE @ + 1,
              !.workers = Move(@, w, NewWorker)]

\* a worker with task_done inside the try, skipped when the job raised
TaskDoneInTry(P, w) ==
    IF w.raised
    THEN [P EXCEPT !.workers = Move(@, w, NewWorker)]
    ELSE [P EXCEPT !.unfinished_tasks = @ - 1,
                   !.done[w.job.id] = @ + 1,
                   !.workers = Move(@, w, NewWorker)]

\* Worker.run, tasks.task_done(), then back to the top of the loop
TaskDone(P, w) ==
    [P EXCEPT !.unfinished_tasks = @ - 1,
              !.done[w.job.id] = @ + 1,
              !.workers = Move(@, w, NewWorker)]

\* a wait on an event that only a task_done bringing the count to zero sets
CompletedByTaskDone(P) ==
    /\ P.unfinished_tasks = 0
    /\ P.done # << >>

\* a wait that gives up once no thread of the pool is left alive
CompletedOrDead(P) ==
    \/ P.unfinished_tasks = 0
    \/ \A w \in BagToSet(P.workers) : w.state = "Stopped"

\* a wait that watches the queue instead of the count of unfinished tasks
CompletedWhenQueueEmpty(P) == P.queue = << >>

\* ThreadPool.wait_completion: tasks.join() returns when nothing is unfinished
Completed(P) == P.unfinished_tasks = 0

\* the threads of a pool that are in one of the given states
Threads(P, states) == { w \in BagToSet(P.workers) : w.state \in states }

\* how many threads of a pool are in one of the given states
Count(P, states) == BagCardinality([w \in Threads(P, states) |-> P.workers[w]])

\* ---------------------------------------------------------- Worker steps

WorkerGet(p, w) ==
    /\ w.state = "Running"
    /\ pools[p].queue # << >>
    /\ pools' = [pools EXCEPT ![p] = Get(pools[p], w)]
    /\ UNCHANGED <<papers, articles, pool, pc, last>>

\* a get whose timeout fires whether or not a job is waiting in the queue
WorkerTimeoutAnytime(p, w) ==
    /\ w.state = "Running"
    /\ pools' = [pools EXCEPT ![p] = Timeout(@, w)]
    /\ UNCHANGED <<papers, articles, pool, pc, last>>

WorkerTimeout(p, w) ==
    /\ w.state = "Running"
    /\ pools[p].queue = << >>
    /\ pools' = [pools EXCEPT ![p] = Timeout(pools[p], w)]
    /\ UNCHANGED <<papers, articles, pool, pc, last>>

WorkerInvoke(p, w) ==
    /\ w.state = "Executing"
    /\ \E raises \in BOOLEAN :
          pools' = [pools EXCEPT ![p] = Invoke(pools[p], w, raises)]
    /\ UNCHANGED <<papers, articles, pool, pc, last>>

WorkerTaskDone(p, w) ==
    /\ w.state = "Executed"
    /\ pools' = [pools EXCEPT ![p] = TaskDone(pools[p], w)]
    /\ UNCHANGED <<papers, articles, pool, pc, last>>

WorkerStep ==
    \E p \in 1..Len(pools) : \E w \in BagToSet(pools[p].workers) :
        \/ WorkerGet(p, w)
        \/ WorkerTimeout(p, w)
        \/ WorkerInvoke(p, w)
        \/ WorkerTaskDone(p, w)

\* -------------------------------------------------------------- NewsPool

\* a call that returned, and a call that raised exc to its caller; p is the
\* pool the call worked on, k the threads_per_source it was given
Returned(op, p, k) == [op |-> op, result |-> "ok", pool |-> p, k |-> k]
Raised(op, exc, p) == [op |-> op, result |-> exc, pool |-> p, k |-> 0]

\* NewsPool.__init__
InitNewsPool ==
    /\ papers = << >>
    /\ articles = << >>
    /\ pool = 0

\* a set_papers that sizes the pool by threads_per_source alone
SetPapersCallPerSource(paper_list, threads_per_source) ==
    /\ pc.op = "idle"
    /\ Len(pools) < MaxPools
    /\ papers' = paper_list
    /\ pools' = Append(pools, ThreadPool(threads_per_source))
    /\ pool' = Len(pools) + 1
    /\ pc' = [op |-> "set_papers", i |-> 1, k |-> threads_per_source]
    /\ UNCHANGED <<articles, last>>

\* a set_papers that refuses to start a batch while self.pool is set
SetPapersCallGuarded(paper_list, threads_per_source) ==
    /\ pc.op = "idle"
    /\ Len(pools) < MaxPools
    /\ IF pool # 0
       THEN /\ last' = [op |-> "set_papers", result |-> "RuntimeError",
                        pool |-> pool, k |-> 0]
            /\ UNCHANGED <<papers, articles, pool, pools, pc>>
       ELSE /\ papers' = paper_list
            /\ pools' = Append(pools, ThreadPool(threads_per_source * Len(paper_list)))
            /\ pool' = Len(pools) + 1
            /\ pc' = [op |-> "set_papers", i |-> 1, k |-> threads_per_source]
            /\ UNCHANGED <<articles, last>>

\* set_papers up to the construction of the pool
SetPapersCall(paper_list, threads_per_source) ==
    /\ pc.op = "idle"
    /\ Len(pools) < MaxPools
    /\ papers' = paper_list
    /\ pools' = Append(pools, ThreadPool(threads_per_source * Len(paper_list)))
    /\ pool' = Len(pools) + 1
    /\ pc' = [op |-> "set_papers", i |-> 1, k |-> threads_per_source]
    /\ UNCHANGED <<articles, last>>

\* set_papers, one turn of "for paper in self.papers": add_task
SetPapersAdd ==
    /\ pc.op = "set_papers"
    /\ pc.i <= Len(papers)
    /\ ~Full(pools[pool])
    /\ pools' = [pools EXCEPT ![pool] =
                    Put(@, Job(@, "download_articles", papers[pc.i]))]
    /\ pc' = [pc EXCEPT !.i = @ + 1]
    /\ UNCHANGED <<papers, articles, pool, last>>

\* set_papers, the loop is over
SetPapersReturn ==
    /\ pc.op = "set_papers"
    /\ pc.i > Len(papers)
    /\ pc' = Idle
    /\ last' = Returned("set_papers", pool, pc.k)
    /\ UNCHANGED <<papers, articles, pool, pools>>

\* set_articles: self.articles is assigned, then
\* len(self.articles <= self.config.max_number_threads) compares a list (or
\* None) with an int, which raises TypeError before any pool is built
SetArticles(article_list) ==
    /\ pc.op = "idle"
    /\ articles' = article_list
    /\ last' = Raised("set_articles", "TypeError", pool)
    /\ UNCHANGED <<papers, pool, pools, pc>>

\* a join that returns quietly when there is no pool
JoinCallSilent ==
    /\ pc.op = "idle"
    /\ IF pool = 0
       THEN /\ last' = Returned("join", pool, 0)
            /\ UNCHANGED <<papers, articles, pool, pools, pc>>
       ELSE /\ pc' = [op |-> "join", i |-> 0, k |-> 0]
            /\ UNCHANGED <<papers, articles, pool, pools, last>>

\* join, up to self.pool.wait_completion(): the guard prints and re-raises
\* with no active exception (RuntimeError); past the guard a pool of None
\* has no wait_completion (AttributeError); else the caller waits
JoinCall ==
    /\ pc.op = "idle"
    /\ IF pool = 0 /\ articles = None
       THEN /\ last' = Raised("join", "RuntimeError", pool)
            /\ UNCHANGED <<papers, articles, pool, pools, pc>>
       ELSE IF pool = 0
       THEN /\ last' = Raised("join", "AttributeError", pool)
            /\ UNCHANGED <<papers, articles, pool, pools, pc>>
       ELSE /\ pc' = [op |-> "join", i |-> 0, k |-> 0]
            /\ UNCHANGED <<papers, articles, pool, pools, last>>

\* a join that forgets to clear self.articles
JoinReturnKeepsArticles ==
    /\ pc.op = "join"
    /\ Completed(pools[pool])
    /\ papers' = << >>
    /\ pool' = 0
    /\ pc' = Idle
    /\ last' = Returned("join", pool, 0)
    /\ UNCHANGED <<articles, pools>>

\* join, wait_completion returned: the batch state is cleared
JoinReturn ==
    /\ pc.op = "join"
    /\ Completed(pools[pool])
    /\ papers' = << >>
    /\ articles' = << >>
    /\ pool' = 0
    /\ pc' = Idle
    /\ last' = Returned("join", pool, 0)
    /\ UNCHANGED pools

Init ==
    /\ InitNewsPool
    /\ pools = << >>
    /\ pc = Idle
    /\ last = Returned("init", 0, 0)

\* set_papers is called, with a list and a number of threads per source
SetPapers == \E paper_list \in ItemLists : \E k \in 0..MaxK : SetPapersCall(paper_list, k)

\* set_articles is called, with a list or with None
SetArticlesAny == \E article_list \in ItemLists \cup {None} : SetArticles(article_list)

Next ==
    \/ SetPapers
    \/ SetPapersAdd
    \/ SetPapersReturn
    \/ SetArticlesAny
    \/ JoinCall
    \/ JoinReturn
    \/ WorkerStep

\* a caller of NewsPool: set_papers, set_articles and join in any order
Spec == Init /\ [][Next]_vars

\* ------------------------------------------- a ThreadPool used on its own

\* the state after ThreadPool(num_threads, timeout_seconds)
InitPool ==
    /\ InitNewsPool
    /\ \E num_threads \in 0..MaxThreads : pools = << ThreadPool(num_threads) >>
    /\ pc = Idle
    /\ last = Returned("init", 1, 0)

\* add_task is called: tasks.put, which waits while the queue is full
AddTaskCall ==
    /\ pc.op = "idle"
    /\ Len(pools[1].put) < MaxTasks
    /\ pc' = [op |-> "add_task", i |-> 0, k |-> 0]
    /\ UNCHANGED <<papers, articles, pool, pools, last>>

\* add_task, the queue is not full: the job is enqueued and add_task returns
AddTaskPut ==
    /\ pc.op = "add_task"
    /\ ~Full(pools[1])
    /\ pools' = [pools EXCEPT ![1] = Put(@, Job(@, "task", Len(@.put) + 1))]
    /\ pc' = Idle
    /\ last' = Returned("add_task", 1, 0)
    /\ UNCHANGED <<papers, articles, pool>>

\* wait_completion is called: tasks.join()
WaitCall ==
    /\ pc.op = "idle"
    /\ pc' = [op |-> "wait_completion", i |-> 0, k |-> 0]
    /\ UNCHANGED <<papers, articles, pool, pools, last>>

\* wait_completion returns
WaitReturn ==
    /\ pc.op = "wait_completion"
    /\ Completed(pools[1])
    /\ pc' = Idle
    /\ last' = Returned("wait_completion", 1, 0)
    /\ UNCHANGED <<papers, articles, pool, pools>>

NextPool ==
    \/ AddTaskCall
    \/ AddTaskPut
    \/ WaitCall
    \/ WaitReturn
    \/ WorkerStep

\* a caller of one ThreadPool: add_task and wait_completion in any order
SpecPool == InitPool /\ [][NextPool]_vars

\* ------------------------------------------------ the first batch alone

\* the first set_papers of a NewsPool
FirstSetPapers == pools = << >> /\ SetPapers

NextBatch ==
    \/ FirstSetPapers
    \/ SetPapersAdd
    \/ SetPapersReturn
    \/ SetArticlesAny
    \/ JoinCall
    \/ JoinReturn
    \/ WorkerStep

\* the threads that have something to do get to do it: the caller goes on
\* with its call, a worker at a non-empty queue dequeues, a job invocation
\* ends, and task_done follows it
Fairness ==
    /\ WF_vars(SetPapersAdd)
    /\ WF_vars(SetPapersReturn)
    /\ WF_vars(JoinCall)
    /\ WF_vars(JoinReturn)
    /\ WF_vars(\E p \in 1..Len(pools) : \E w \in BagToSet(pools[p].workers) : WorkerGet(p, w))
    /\ WF_vars(\E p \in 1..Len(pools) : \E w \in BagToSet(pools[p].workers) : WorkerInvoke(p, w))
    /\ WF_vars(\E p \in 1..Len(pools) : \E w \in BagToSet(pools[p].workers) : WorkerTaskDone(p, w))

\* a caller of NewsPool that builds one pool: set_articles and join in any
\* order around one set_papers
SpecOne == Init /\ [][NextBatch]_vars

\* the same caller, fairly scheduled
SpecBatch == SpecOne /\ Fairness

\* ---------------------------------------------------------------- claims

\* every job ever added to pool P has been invoked once, has had its one
\* task_done, and none is pending in the queue or held by a worker
AllJobsRanOnce(P) ==
    /\ P.queue = << >>
    /\ Threads(P, {"Executing", "Executed"}) = {}
    /\ \A j \in 1..Len(P.put) : P.calls[j] = 1 /\ P.done[j] = 1

\* C1: when wait_completion (and so join) has returned, each job added to
\* that pool has been executed exactly once and has finished, whichever of
\* them raised: none is pending, none is in flight, none ran twice.
C1_WaitReturnsAfterAllJobs ==
    (last.op \in {"wait_completion", "join"} /\ last.result = "ok")
        => AllJobsRanOnce(pools[last.pool])

\* wait_completion has returned on a pool of three jobs, one of which raised
C1_Witness ==
    /\ last.op = "wait_completion"
    /\ last.result = "ok"
    /\ Len(pools[1].put) = 3
    /\ pools[1].traces[2] = 1
    /\ pools[1].traces[3] = 0

C3_SetArticlesPool ==
    last.op = "set_articles" =>
        /\ last.result = "ok"
        /\ pool # 0
        /\ BagCardinality(pools[pool].workers) = Min(Len(articles), max_number_threads)
        /\ Len(pools[pool].put) = 2 * Len(articles)
        /\ \A i \in 1..Len(articles) :
              /\ pools[pool].put[2 * i - 1].func = "download"
              /\ pools[pool].put[2 * i - 1].item = articles[i]
              /\ pools[pool].put[2 * i].func = "parse"
              /\ pools[pool].put[2 * i].item = articles[i]

\* C4: when join has returned normally, papers, articles and pool are back
\* at their initial values, and the set_papers that follows builds a new
\* pool: the newest one, with nothing enqueued yet and all its own workers,
\* none of them busy.
C4_JoinResets ==
    /\ (pc.op = "idle" /\ last.op = "join" /\ last.result = "ok")
          => (papers = << >> /\ articles = << >> /\ pool = 0)
    /\ (pc.op = "set_papers" /\ pc.i = 1) =>
          /\ pool = Len(pools)
          /\ pool # last.pool
          /\ pools[pool].put = << >>
          /\ pools[pool].unfinished_tasks = 0
          /\ BagCardinality(pools[pool].workers) = pc.k * Len(papers)
          /\ Threads(pools[pool], {"Executing", "Executed"}) = {}

\* a join has returned from a batch of two jobs, and the set_papers of a
\* second batch has just built its pool
C4_Witness ==
    /\ last.op = "join"
    /\ last.result = "ok"
    /\ pc.op = "set_papers"
    /\ pc.i = 1
    /\ pool = 2
    /\ Len(pools[1].put) = 2
    /\ articles = << >>

\* C5: join called with no pool (a fresh NewsPool, or right after a join
\* returned) raises to its caller at once, the caller is never left
\* waiting, and papers, articles and pool are as before.
C5_JoinWithoutBatch ==
    [][pool = 0 =>
          /\ pc'.op # "join"
          /\ (last'.op = "join" /\ last' # last) =>
                /\ last'.result \in {"AttributeError", "RuntimeError"}
                /\ UNCHANGED <<papers, articles, pool, pc>>
      ]_vars

\* join raised right after an earlier join had returned
C5_Witness ==
    /\ last.op = "join"
    /\ last.result = "AttributeError"
    /\ Len(pools) = 1
    /\ pool = 0

\* C6: an exception of a job stays in the worker that ran the job: the
\* caller's call goes on undisturbed, and the worker's next step is the
\* task_done of that job, one off the count of unfinished tasks as for any
\* job, after which the worker is back at the top of its loop.
C6_ExceptionCaught ==
    [][\A p \in 1..Len(pools) :
          /\ \A j \in 1..Len(pools[p].put) :
                pools'[p].traces[j] > pools[p].traces[j] =>
                   /\ \E w \in Threads(pools'[p], {"Executed"}) : w.job.id = j /\ w.raised
                   /\ pools'[p].unfinished_tasks = pools[p].unfinished_tasks
                   /\ UNCHANGED <<pc, last>>
          /\ \A w \in Threads(pools[p], {"Executed"}) :
                (w.raised /\ CopiesIn(w, pools'[p].workers) < CopiesIn(w, pools[p].workers)) =>
                   /\ pools'[p].unfinished_tasks = pools[p].unfinished_tasks - 1
                   /\ pools'[p].done[w.job.id] = pools[p].done[w.job.id] + 1
                   /\ CopiesIn(NewWorker, pools'[p].workers)
                         = CopiesIn(NewWorker, pools[p].workers) + 1
                   /\ UNCHANGED <<pc, last>>
      ]_vars

\* the only worker of a pool is running the second job after the first
\* one raised and was counted done
C6_Witness ==
    /\ pools[1].maxsize = 1
    /\ Len(pools[1].put) >= 2
    /\ pools[1].traces[1] = 1
    /\ pools[1].done[1] = 1
    /\ \E w \in Threads(pools[1], {"Executing"}) : w.job.id = 2

\* the number of Worker threads ThreadPool.__init__ started for pool P
ThreadCount(P) == BagCardinality(P.workers)

\* C7 as stated: the queue of a pool never holds more jobs than the pool
\* was given workers.
C7_QueueAtMostThreadCount ==
    \A p \in 1..Len(pools) : Len(pools[p].queue) <= ThreadCount(pools[p])

\* C7, amended: in a pool built with at least one worker the queue never
\* holds more jobs than the pool was given workers, and an add_task called
\* while it holds that many neither enqueues nor returns nor fails before a
\* worker has dequeued; when add_task does return, it has enqueued its job.
C7_QueueBounded ==
    /\ [](\A p \in 1..Len(pools) :
             ThreadCount(pools[p]) >= 1 => Len(pools[p].queue) <= ThreadCount(pools[p]))
    /\ [][/\ (/\ pc.op = "add_task"
              /\ ThreadCount(pools[1]) >= 1
              /\ Len(pools[1].queue) = ThreadCount(pools[1]))
                => (/\ pc' = pc
                    /\ last' = last
                    /\ pools'[1].put = pools[1].put
                    /\ Len(pools'[1].queue) <= Len(pools[1].queue))
          /\ (pc.op = "add_task" /\ pc' # pc)
                => (/\ pc' = Idle
                    /\ last'.result = "ok"
                    /\ Len(pools'[1].put) = Len(pools[1].put) + 1
                    /\ pools'[1].queue = Append(pools[1].queue, pools'[1].put[Len(pools'[1].put)]))
         ]_vars

\* add_task is waiting at a full queue of two jobs
C7_Witness ==
    /\ pc.op = "add_task"
    /\ ThreadCount(pools[1]) = 2
    /\ Len(pools[1].queue) = 2

\* C8: the jobs leave the queue in the order they entered it, and none is
\* dropped: the jobs dequeued so far, followed by the jobs still in the
\* queue, are the jobs enqueued so far, in that order.
C8_Fifo ==
    \A p \in 1..Len(pools) : pools[p].got \o pools[p].queue = pools[p].put

\* two workers hold the first two jobs while a third job waits
C8_Witness ==
    /\ Len(pools[1].got) = 2
    /\ Len(pools[1].queue) = 1
    /\ Count(pools[1], {"Executing", "Executed"}) = 2

\* C9: a worker that has stopped stays stopped, and a pool never gets a
\* worker it was not built with: the stopped workers of a pool never get
\* fewer, its workers are as many as it was built with, and so its live
\* workers never get more.
C9_StoppedIsTerminal ==
    [][\A p \in 1..Len(pools) :
          /\ ThreadCount(pools[p]) = pools[p].maxsize
          /\ ThreadCount(pools'[p]) = pools'[p].maxsize
          /\ Count(pools'[p], {"Stopped"}) >= Count(pools[p], {"Stopped"})
          /\ Count(pools'[p], {"Running", "Executing", "Executed"})
                <= Count(pools[p], {"Running", "Executing", "Executed"})
      ]_vars

\* one worker has idled out while the other went on to run a job
C9_Witness ==
    /\ Count(pools[1], {"Stopped"}) = 1
    /\ Count(pools[1], {"Executing"}) = 1
    /\ Len(pools[1].got) = 2

\* set_papers, with at least one thread per source, has added every job
\* while no worker of the pool had idled out
AllAddedAllAlive ==
    /\ pc.op = "set_papers"
    /\ pc.i > Len(papers)
    /\ pc.k >= 1
    /\ Count(pools[pool], {"Stopped"}) = 0

\* join has returned
JoinReturned == last.op = "join" /\ last.result = "ok"

\* C10: under fair scheduling, once set_papers with threads_per_source >= 1
\* has added all its jobs with every worker still alive, the join that
\* follows returns, whichever jobs raise.
C10_JoinReturns == AllAddedAllAlive ~> JoinReturned

\* join has returned from a batch of two jobs that both raised
C10_Witness ==
    /\ JoinReturned
    /\ Len(pools[1].put) = 2
    /\ pools[1].traces[1] = 1
    /\ pools[1].traces[2] = 1

\* the sum of a sequence of numbers
RECURSIVE Sum(_)
Sum(s) == IF s = << >> THEN 0 ELSE Head(s) + Sum(Tail(s))

\* the jobs a worker of the pool has dequeued and not yet signalled done
InFlight(P) == Count(P, {"Executing", "Executed"})

\* C11: the count of unfinished tasks goes up by one with each job add_task
\* enqueues and down by one with each task_done, which a worker calls once
\* for a job it has dequeued and invoked, whether the job returned or raised:
\* no job is signalled done twice, or without having been invoked, the count
\* is never negative, and in every state it is the number of jobs pending in
\* the queue plus the number of jobs held by workers (dequeued, being run or
\* run and about to be signalled done).
C11_UnfinishedCount ==
    \A p \in 1..Len(pools) :
        LET P == pools[p] IN
        /\ P.unfinished_tasks >= 0
        /\ P.unfinished_tasks = Len(P.queue) + InFlight(P)
        /\ P.unfinished_tasks = Len(P.put) - Sum(P.done)
        /\ \A j \in 1..Len(P.put) :
              /\ P.done[j] <= 1
              /\ P.done[j] <= P.calls[j]
              /\ P.done[j] = 1 => \E n \in 1..Len(P.got) : P.got[n].id = j

\* three jobs added: the one that raised is signalled done, one that returned
\* is about to be, and the last is still in the queue
C11_Witness ==
    /\ Len(pools[1].put) = 3
    /\ pools[1].traces[1] = 1
    /\ pools[1].done[1] = 1
    /\ Count(pools[1], {"Executed"}) = 1
    /\ Len(pools[1].queue) = 1
    /\ pools[1].unfinished_tasks = 2

\* every thread the pool started has left its loop (or none was started)
AllStopped(P) == Count(P, {"Running", "Executing", "Executed"}) = 0

\* the calling thread is inside join or wait_completion on pool p
WaitingOn(p) ==
    \/ pc.op = "join" /\ pool = p
    \/ pc.op = "wait_completion" /\ p = 1

\* C12: once every worker of a pool has idled out, the jobs left in the queue
\* or enqueued afterwards are never dequeued or invoked, the count of
\* unfinished tasks never goes down, and a caller waiting in join or
\* wait_completion on the pool with a job unfinished stays there: the wait
\* does not return and no error is raised.
C12_Starvation ==
    [][\A p \in 1..Len(pools) :
          LET P == pools[p]
              Q == pools'[p]
          IN  AllStopped(P) =>
                /\ AllStopped(Q)
                /\ Q.got = P.got
                /\ Q.unfinished_tasks >= P.unfinished_tasks
                /\ \A j \in 1..Len(Q.put) :
                      Q.calls[j] = IF j <= Len(P.put) THEN P.calls[j] ELSE 0
                /\ (WaitingOn(p) /\ P.unfinished_tasks > 0) =>
                      (pc' = pc /\ last' = last)]_vars

\* join is waiting on a pool of two workers that both idled out before the
\* second job was added: both jobs sit in the queue, never invoked
C12_Witness ==
    /\ pc.op = "join"
    /\ ThreadCount(pools[pool]) = 2
    /\ Count(pools[pool], {"Stopped"}) = 2
    /\ Len(pools[pool].queue) = 2
    /\ pools[pool].calls = <<0, 0>>
    /\ last.op = "set_papers"
    /\ last.result = "ok"

\* C13 as stated: once every worker of a pool (built with at least one) has
\* idled out, no add_task on that pool returns any more: nothing is enqueued.
C13_AddTaskBlocksOnceAllStopped ==
    [][\A p \in 1..Len(pools) :
          (ThreadCount(pools[p]) >= 1 /\ AllStopped(pools[p])) =>
              pools'[p].put = pools[p].put]_vars

\* C13, amended: once every worker of a pool built with thread_count >= 1
\* workers has idled out, an add_task still enqueues its job and returns as
\* long as the queue holds fewer than thread_count jobs; an add_task called
\* when the queue holds thread_count jobs stays blocked for ever, since the
\* queue never shrinks again.
C13_AddTaskBlocksOnceFull ==
    [][LET P == pools[1]
           Q == pools'[1]
       IN  (ThreadCount(P) >= 1 /\ AllStopped(P)) =>
             /\ Len(Q.queue) >= Len(P.queue)
             /\ (pc.op = "add_task" /\ Len(P.queue) >= ThreadCount(P)) =>
                   (pc' = pc /\ Q = P /\ last' = last)
             /\ (pc.op = "add_task" /\ Len(P.queue) < ThreadCount(P)) =>
                   ENABLED AddTaskPut
             /\ (pc.op = "add_task" /\ pc' # pc) =>
                   /\ Len(P.queue) < ThreadCount(P)
                   /\ Len(Q.queue) = Len(P.queue) + 1
                   /\ last'.op = "add_task"
                   /\ last'.result = "ok"]_vars

\* both workers of a pool idled out before anything was added; two add_task
\* calls have returned since and the third is blocked on the full queue
C13_Witness ==
    /\ ThreadCount(pools[1]) = 2
    /\ AllStopped(pools[1])
    /\ pools[1].got = << >>
    /\ Len(pools[1].queue) = 2
    /\ pc.op = "add_task"

\* the position of a job of the given function and item in a sequence of
\* jobs, 0 when there is none
Position(jobs, func, item) ==
    IF \E n \in 1..Len(jobs) : jobs[n].func = func /\ jobs[n].item = item
    THEN CHOOSE n \in 1..Len(jobs) : jobs[n].func = func /\ jobs[n].item = item
    ELSE 0

\* C14: once set_articles has been called with at least one article, the
\* download and the parse of each article are two separate entries of the
\* pool's queue, the download enqueued first, and the parse is dequeued only
\* after the download has been dequeued.
C14_ArticleJobsIndependent ==
    (last.op = "set_articles" /\ articles # None /\ articles # << >>) =>
        /\ pool # 0
        /\ \A a \in 1..Len(articles) :
              LET P == pools[pool]
                  d == Position(P.put, "download", articles[a])
                  e == Position(P.put, "parse", articles[a])
              IN  /\ d > 0
                  /\ e > d
                  /\ Position(P.got, "parse", articles[a]) > 0 =>
                        /\ Position(P.got, "download", articles[a]) > 0
                        /\ Position(P.got, "download", articles[a])
                              < Position(P.got, "parse", articles[a])

\* C15: set_papers is accepted whatever self.pool holds: it raises nothing,
\* builds a new pool, makes self.pool refer to it and leaves every earlier
\* pool, its queue and its threads as they were; join returns as soon as
\* the pool self.pool refers to has nothing unfinished, whatever the other
\* pools hold, and leaves them untouched as well.
C15_PoolReplaced ==
    [][/\ (pc.op = "idle" /\ pc'.op = "set_papers") =>
              /\ Len(pools') = Len(pools) + 1
              /\ pool' = Len(pools')
              /\ \A p \in 1..Len(pools) : pools'[p] = pools[p]
              /\ last' = last
       /\ (last' # last /\ last'.op = "set_papers") => last'.result = "ok"
       /\ (pc.op = "join" /\ pc' # pc) =>
              /\ Completed(pools[pool])
              /\ pools' = pools
              /\ last' = Returned("join", pool, 0)]_vars

\* set_papers was called twice with no join in between and the join that
\* followed has returned from the second pool, while the first pool still
\* has a job in its queue, a job being run and a worker waiting for work
C15_Witness ==
    /\ Len(pools) = 2
    /\ last = Returned("join", 2, 0)
    /\ Len(pools[1].put) = 2
    /\ pools[1].done = <<0, 0>>
    /\ Len(pools[1].queue) = 1
    /\ Count(pools[1], {"Executing"}) = 1
    /\ Count(pools[1], {"Running"}) = 1
    /\ pools[2].put # << >>
    /\ pool = 0

\* C16: a thread leaves its loop only from the Running state, waiting in
\* get, and only at a moment when the queue is empty: in a step that adds a
\* Stopped thread to a pool the queue is empty before and after, one Running
\* thread is gone, and the threads holding a job (invoking it, or done with
\* it and about to call task_done) are the same as before.
C16_StopsOnlyOnEmptyQueue ==
    [][\A p \in 1..Len(pools) :
          LET P == pools[p]
              Q == pools'[p]
          IN  Count(Q, {"Stopped"}) > Count(P, {"Stopped"}) =>
                /\ P.queue = << >>
                /\ Q.queue = << >>
                /\ Count(Q, {"Stopped"}) = Count(P, {"Stopped"}) + 1
                /\ Count(Q, {"Running"}) = Count(P, {"Running"}) - 1
                /\ \A w \in Threads(P, {"Executing", "Executed"}) \cup
                            Threads(Q, {"Executing", "Executed"}) :
                      CopiesIn(w, Q.workers) = CopiesIn(w, P.workers)
                /\ Q.unfinished_tasks = P.unfinished_tasks]_vars

\* one worker has idled out on the empty queue; later a job was added behind
\* the one the other worker has run and not yet signalled done
C16_Witness ==
    /\ Count(pools[1], {"Stopped"}) = 1
    /\ Count(pools[1], {"Executed"}) = 1
    /\ Len(pools[1].queue) = 1
    /\ pools[1].unfinished_tasks = 2

\* C17: inside set_papers(items, threads_per_source = k) with k >= 1 and
\* N >= 1 items, the queue of size k*N is never full when the next add_task
\* is due, whatever the workers have done, so that add_task is not blocked;
\* and when set_papers has returned, all N jobs have been enqueued.
C17_SetPapersNeverBlocks ==
    /\ (pc.op = "set_papers" /\ pc.k >= 1 /\ pc.i <= Len(papers)) =>
          /\ pools[pool].maxsize >= Len(papers)
          /\ Len(pools[pool].put) = pc.i - 1
          /\ ~Full(pools[pool])
          /\ ENABLED SetPapersAdd
    /\ (pc.op = "idle" /\ last.op = "set_papers" /\ last.k >= 1) =>
          /\ last.result = "ok"
          /\ Len(pools[last.pool].put) = Len(papers)

\* the second add_task of set_papers is due on a pool whose two workers have
\* both idled out, with the first job still in the queue
C17_Witness ==
    /\ pc.op = "set_papers"
    /\ pc.k = 1
    /\ pc.i = 2
    /\ Len(papers) = 2
    /\ AllStopped(pools[pool])
    /\ Len(pools[pool].queue) = 1

\* C18: in a pool built with exactly one worker at most one job is held by
\* a worker in every state, every job is invoked at most once, and jobs run
\* in the order they were added: while job j is held, or when it was the
\* last one dequeued, the jobs added before it have been invoked and
\* signalled done and the jobs added after it have not been invoked.
C18_OneWorkerSerial ==
    ThreadCount(pools[1]) = 1 =>
        LET P == pools[1] IN
        /\ InFlight(P) <= 1
        /\ \A j \in 1..Len(P.put) : P.calls[j] <= 1
        /\ \A n \in 1..Len(P.got) : P.got[n].id = n
        /\ \A j \in 1..Len(P.put) :
              /\ j < Len(P.got) => (P.calls[j] = 1 /\ P.done[j] = 1)
              /\ j > Len(P.got) => (P.calls[j] = 0 /\ P.done[j] = 0)
        /\ \A w \in Threads(P, {"Executing", "Executed"}) :
              w.job.id = Len(P.got)

\* the single worker holds the second of three jobs: the first is done, the
\* third waits in the queue
C18_Witness ==
    /\ ThreadCount(pools[1]) = 1
    /\ Len(pools[1].put) = 3
    /\ Count(pools[1], {"Executing"}) = 1
    /\ pools[1].done = <<1, 0, 0>>
    /\ Len(pools[1].queue) = 1

\* C19: set_papers with an empty list builds a pool with no worker and adds
\* no job; nothing of that pool is ever unfinished, so the join that follows
\* can return as soon as it is called, and when it has returned papers,
\* articles and pool are back at their initial values.
C19_EmptyBatch ==
    /\ (pool # 0 /\ papers = << >>) =>
          /\ ThreadCount(pools[pool]) = 0
          /\ pools[pool].maxsize = 0
          /\ pools[pool].put = << >>
          /\ pools[pool].unfinished_tasks = 0
          /\ pc.op = "set_papers" => ENABLED SetPapersReturn
          /\ pc.op = "join" => ENABLED JoinReturn
    /\ (pc.op = "idle" /\ last.op = "join" /\ last.result = "ok"
          /\ pools[last.pool].maxsize = 0) =>
          /\ pools[last.pool].put = << >>
          /\ papers = << >>
          /\ articles = << >>
          /\ pool = 0

\* join has returned from the pool set_papers built for the empty list
C19_Witness ==
    /\ pc.op = "idle"
    /\ last = Returned("join", 1, 0)
    /\ pools[1].maxsize = 0
    /\ pools[1].workers = EmptyBag
    /\ pools[1].put = << >>
    /\ pool = 0

====
